---- MODULE Spec2Model ----
(***************************************************************************)
(* State-machine model of the wellbeing backend (src/models.py,            *)
(* src/api/auth.py, src/api/user.py).                                      *)
(*                                                                         *)
(* The state is the committed content of the four tables, the clock, the   *)
(* bearer tokens issued so far, the get_journal requests that are between  *)
(* their existence check and their commit, and the last request served: its *)
(* Authorization header and the response sent.                             *)
(* Every other handler runs in one transaction and is one action.          *)
(*                                                                         *)
(* Python values that may be None are option values: None is <<>> and a    *)
(* value v is <<v>>.  A JSON payload (a dict) is a function from its keys   *)
(* to option values, so a key can be absent, null or given.                *)
(***************************************************************************)
EXTENDS Integers, Sequences, FiniteSets, TLC

VARIABLES users, check_ins, journals, pages, autoinc, now, issued, inflight, authz, resp

vars == <<users, check_ins, journals, pages, autoinc, now, issued, inflight, authz, resp>>

\* The committed rows of the database.
db == <<users, check_ins, journals, pages>>

----------------------------------------------------------------------------
\* Bounds of the model.

\* Rows ever inserted per table (the auto-increment counters stop here).
MaxUsers == 2
MaxCheckIns == 1
MaxJournals == 2
MaxPages == 1
\* Last instant of the clock.
MaxTime == 3
\* Tokens issued in one run.
MaxTokens == 2
\* get_journal requests that can be between check and commit at once.
MaxInFlight == 2

----------------------------------------------------------------------------
\* Python values.

None == <<>>
Some(v) == <<v>>
Val(o) == o[1]

\* dict.get(key): None when the key is absent.
Get(data, key) == IF key \in DOMAIN data THEN data[key] ELSE None

\* dict.get(key, default).
GetOr(data, key, default) == IF key \in DOMAIN data THEN data[key] ELSE default

\* Python truth of an optional string: None and '' are false.
TruthyStr(o) == o # None /\ Val(o) # ""

\* Python truth of an optional integer: None and 0 are false.
TruthyInt(o) == o # None /\ Val(o) # 0

\* The empty dict, and a dict of one or more keys.
EmptyDict == [k \in {} |-> None]

\* `not data` for a JSON body: true of the empty dict.
Falsy(data) == DOMAIN data = {}

\* User.check_auth_token's None, and User.query.get's None, as an id.
NoUser == 0

----------------------------------------------------------------------------
\* Credential manager.

\* bcrypt hash of a plain password (the salt is embedded in the hash and
\* plays no part in verification, so it is left out).
hash_password(plain_password) == [bcrypt |-> plain_password]

check_password(user, plain_password) ==
    user.password_hash = hash_password(plain_password)

----------------------------------------------------------------------------
\* Token service.  The clock counts units of 12 hours.

SECRET_KEY == "dev"

\* timedelta(days=1) in clock units.
TokenLifetime == 2

\* HMAC-SHA256 of the payload under a key.
HS256(key, sub, iat, exp) == <<key, sub, iat, exp>>

\* A token of three well-formed segments.
Jwt(sub, iat, exp, sig) == [segs |-> 3, sub |-> sub, iat |-> iat, exp |-> exp, sig |-> sig]

\* generate_auth_token with the expiry one clock unit late.
generate_auth_token_late(id, utcnow) ==
    Jwt(id, utcnow, utcnow + TokenLifetime + 1,
        HS256(SECRET_KEY, id, utcnow, utcnow + TokenLifetime + 1))

generate_auth_token(id, utcnow) ==
    Jwt(id, utcnow, utcnow + TokenLifetime,
        HS256(SECRET_KEY, id, utcnow, utcnow + TokenLifetime))

\* jwt.decode: the token has three segments, the signature is the HMAC of
\* the payload under the secret, and the expiry lies in the future.
DecodeOk(token, utcnow) ==
    /\ token.segs = 3
    /\ token.sig = HS256(SECRET_KEY, token.sub, token.iat, token.exp)
    /\ utcnow < token.exp

check_auth_token(token, utcnow) ==
    IF DecodeOk(token, utcnow) THEN token.sub ELSE NoUser

----------------------------------------------------------------------------
\* Requests and responses.

\* The Authorization header of a request: absent, or a scheme and a token.
Header(kind, scheme, token) == [kind |-> kind, scheme |-> scheme, token |-> token]

\* A response: the handler that answered, the status and message, the id
\* login_required bound to g.user (NoUser when it bound none), the id in the
\* route, the JSON body received, the entity serialized in the answer, and
\* whether the handler's own code ran (FALSE when login_required answered).
Response(op, status, msg, uid, id, data, out) ==
    [op |-> op, status |-> status, msg |-> msg, uid |-> uid, id |-> id,
     data |-> data, out |-> out, called |-> TRUE]

\* The tokens of a request that carries none.
NoToken == [segs |-> 0, sub |-> NoUser, iat |-> 0, exp |-> 0, sig |-> <<"", NoUser, 0, 0>>]
NoHeader == Header("absent", "", NoToken)

NoResponse == Response("none", 0, "", NoUser, 0, EmptyDict, EmptyDict)

\* An exception no handler catches: Flask answers 500 and the session is
\* rolled back.
Unhandled(op, uid, id, data, exc) == Response(op, 500, exc, uid, id, data, EmptyDict)

\* The tokens issued so far.  issued keeps, with each token, the user that
\* logged in and the instant of the login.
Tokens == {i.token : i \in issued}

\* Query.first() on a filter: the matching row of lowest primary key.
First(S) == IF S = {} THEN 0 ELSE CHOOSE i \in S : \A j \in S : i <= j

\* The lookup by email finding nobody.
UserByEmail_nobody(email) == NoUser

\* User.query.filter_by(email=email).first()
UserByEmail(email) == First({i \in DOMAIN users : users[i].email = email})

\* g.user.check_ins and g.user.journal (the relationships of a User).
CheckInsOf(uid) == {i \in DOMAIN check_ins : check_ins[i].user_id = Some(uid)}
JournalsOf(uid) == {i \in DOMAIN journals : journals[i].owner_id = Some(uid)}

\* A delete that leaves the row in place.
Without_kept(f, i) == f

\* f without the row of key i.
Without(f, i) == [k \in DOMAIN f \ {i} |-> f[k]]

\* f with row i set to r.
With(f, i, r) == [k \in DOMAIN f \cup {i} |-> IF k = i THEN r ELSE f[k]]

\* login_required without the test of the scheme.
login_required_any_scheme(hdr) ==
    IF hdr.kind # "present" THEN
        [ok |-> FALSE, status |-> 401, msg |-> "Authorization header is required",
         g_user |-> NoUser]
    ELSE LET user_id == check_auth_token(hdr.token, now) IN
        IF user_id = NoUser THEN
            [ok |-> FALSE, status |-> 401, msg |-> "Invalid token", g_user |-> NoUser]
        ELSE
            [ok |-> TRUE, status |-> 200, msg |-> "",
             g_user |-> IF user_id \in DOMAIN users THEN user_id ELSE NoUser]

\* login_required: the decision of the wrapper for a header.  ok is TRUE
\* when the wrapped handler is called; g_user is then User.query.get(user_id),
\* NoUser when no such row is stored.
login_required(hdr) ==
    IF hdr.kind # "present" THEN
        [ok |-> FALSE, status |-> 401, msg |-> "Authorization header is required",
         g_user |-> NoUser]
    ELSE IF hdr.scheme # "Bearer" THEN
        [ok |-> FALSE, status |-> 401, msg |-> "Invalid authorization header",
         g_user |-> NoUser]
    ELSE LET user_id == check_auth_token(hdr.token, now) IN
        IF user_id = NoUser THEN
            [ok |-> FALSE, status |-> 401, msg |-> "Invalid token", g_user |-> NoUser]
        ELSE
            [ok |-> TRUE, status |-> 200, msg |-> "",
             g_user |-> IF user_id \in DOMAIN users THEN user_id ELSE NoUser]

\* The answer of the wrapper when it does not call the handler.
Unauthorized(op, auth, id, data) ==
    [Response(op, auth.status, auth.msg, NoUser, id, data, EmptyDict) EXCEPT !.called = FALSE]

\* datetime.strptime(s, '%Y-%m-%d'): None stands for the ValueError.
strptime_dob(s) ==
    CASE s = "1990-01-01" -> Some([y |-> 1990, m |-> 1, d |-> 1])
      [] s = "1985-05-05" -> Some([y |-> 1985, m |-> 5, d |-> 5])
      [] OTHER -> None

\* User.serialize, without the timestamps.
SerializeUser(i, u) == [id |-> Some(i), name |-> Some(u.name), email |-> Some(u.email)]

----------------------------------------------------------------------------
\* src/api/auth.py

register(data) ==
    /\ authz' = NoHeader
    /\ IF \/ Falsy(data)
          \/ ~TruthyStr(Get(data, "email"))
          \/ ~TruthyStr(Get(data, "password"))
          \/ ~TruthyStr(Get(data, "name"))
          \/ ~TruthyStr(Get(data, "dob"))
       THEN /\ resp' = Response("register", 400, "Invalid payload", NoUser, 0, data, EmptyDict)
            /\ UNCHANGED <<db, autoinc, now, issued, inflight>>
       ELSE IF UserByEmail(Val(data.email)) # 0
       THEN /\ resp' = Response("register", 400, "User already exists", NoUser, 0, data, EmptyDict)
            /\ UNCHANGED <<db, autoinc, now, issued, inflight>>
       ELSE IF strptime_dob(Val(data.dob)) = None
       THEN /\ resp' = Unhandled("register", NoUser, 0, data, "ValueError")
            /\ UNCHANGED <<db, autoinc, now, issued, inflight>>
       ELSE /\ autoinc.users < MaxUsers
            /\ LET id == autoinc.users + 1 IN
               /\ users' = With(users, id,
                                [name |-> Val(data.name), email |-> Val(data.email),
                                 dob |-> Val(strptime_dob(Val(data.dob))),
                                 password_hash |-> hash_password(Val(data.password))])
               /\ autoinc' = [autoinc EXCEPT !.users = id]
               /\ resp' = Response("register", 201, "User registered", NoUser, id, data, EmptyDict)
            /\ UNCHANGED <<check_ins, journals, pages, now, issued, inflight>>

login(data) ==
    /\ authz' = NoHeader
    /\ IF \/ Falsy(data)
          \/ ~TruthyStr(Get(data, "email"))
          \/ ~TruthyStr(Get(data, "password"))
       THEN /\ resp' = Response("login", 400, "Invalid payload", NoUser, 0, data, EmptyDict)
            /\ UNCHANGED <<db, autoinc, now, issued, inflight>>
       ELSE LET user == UserByEmail(Val(data.email)) IN
           IF user = 0 \/ ~check_password(users[user], Val(data.password))
           THEN /\ resp' = Response("login", 400, "Invalid username or password", NoUser, 0,
                                    data, EmptyDict)
                /\ UNCHANGED <<db, autoinc, now, issued, inflight>>
           ELSE LET token == generate_auth_token(user, now) IN
                /\ token \in Tokens \/ Cardinality(issued) < MaxTokens
                /\ issued' = issued \cup {[user |-> user, at |-> now, token |-> token]}
                /\ resp' = Response("login", 200, "token", user, 0, data, EmptyDict)
                /\ UNCHANGED <<db, autoinc, now, inflight>>

change_password(hdr, data) ==
    LET auth == login_required(hdr)
        op == "change_password"
    IN
    /\ authz' = hdr
    /\ UNCHANGED <<check_ins, journals, pages, autoinc, now, issued, inflight>>
    /\ IF ~auth.ok
       THEN /\ resp' = Unauthorized(op, auth, 0, data)
            /\ UNCHANGED users
       ELSE IF ~TruthyStr(Get(data, "current_password")) \/ ~TruthyStr(Get(data, "new_password"))
       THEN /\ resp' = Response(op, 400, "Invalid payload", auth.g_user, 0, data, EmptyDict)
            /\ UNCHANGED users
       ELSE IF auth.g_user = NoUser
       THEN /\ resp' = Unhandled(op, NoUser, 0, data, "AttributeError")
            /\ UNCHANGED users
       ELSE IF ~check_password(users[auth.g_user], Val(data.current_password))
       THEN /\ resp' = Response(op, 400, "Invalid username or password", auth.g_user, 0,
                                data, EmptyDict)
            /\ UNCHANGED users
       ELSE /\ users' = [users EXCEPT ![auth.g_user].password_hash =
                                          hash_password(Val(data.new_password))]
            /\ resp' = Response(op, 200, "Password changed", auth.g_user, 0, data, EmptyDict)

----------------------------------------------------------------------------
\* src/api/user.py: the user routes.

get_current_user(hdr) ==
    LET auth == login_required(hdr)
        op == "get_current_user"
    IN
    /\ authz' = hdr
    /\ UNCHANGED <<db, autoinc, now, issued, inflight>>
    /\ IF ~auth.ok
       THEN resp' = Unauthorized(op, auth, 0, EmptyDict)
       ELSE IF auth.g_user = NoUser
       THEN resp' = Unhandled(op, NoUser, 0, EmptyDict, "AttributeError")
       ELSE resp' = Response(op, 200, "", auth.g_user, 0, EmptyDict,
                             SerializeUser(auth.g_user, users[auth.g_user]))

update_user(hdr, data) ==
    LET auth == login_required(hdr)
        op == "update_user"
    IN
    /\ authz' = hdr
    /\ UNCHANGED <<check_ins, journals, pages, autoinc, now, issued, inflight>>
    /\ IF ~auth.ok
       THEN /\ resp' = Unauthorized(op, auth, 0, data)
            /\ UNCHANGED users
       ELSE IF Falsy(data) \/ ~TruthyStr(Get(data, "name")) \/ ~TruthyStr(Get(data, "email"))
       THEN /\ resp' = Response(op, 400, "Invalid payload", auth.g_user, 0, data, EmptyDict)
            /\ UNCHANGED users
       ELSE IF auth.g_user = NoUser
       THEN /\ resp' = Unhandled(op, NoUser, 0, data, "AttributeError")
            /\ UNCHANGED users
       ELSE /\ users' = [users EXCEPT ![auth.g_user].name = Val(data.name),
                                      ![auth.g_user].email = Val(data.email)]
            /\ resp' = Response(op, 200, "", auth.g_user, 0, data,
                                SerializeUser(auth.g_user, users'[auth.g_user]))

\* db.session.delete(g.user) nulls the foreign key of the rows that refer to
\* the user; user_id and owner_id are nullable=False, so the commit fails
\* when the user has a check-in or a journal.
delete_user(hdr, data) ==
    LET auth == login_required(hdr)
        op == "delete_user"
    IN
    /\ authz' = hdr
    /\ UNCHANGED <<check_ins, journals, pages, autoinc, now, issued, inflight>>
    /\ IF ~auth.ok
       THEN /\ resp' = Unauthorized(op, auth, 0, data)
            /\ UNCHANGED users
       ELSE IF Falsy(data) \/ ~TruthyStr(Get(data, "password"))
       THEN /\ resp' = Response(op, 400, "Invalid payload", auth.g_user, 0, data, EmptyDict)
            /\ UNCHANGED users
       ELSE IF auth.g_user = NoUser
       THEN /\ resp' = Unhandled(op, NoUser, 0, data, "AttributeError")
            /\ UNCHANGED users
       ELSE IF ~check_password(users[auth.g_user], Val(data.password))
       THEN /\ resp' = Response(op, 400, "Invalid password", auth.g_user, 0, data, EmptyDict)
            /\ UNCHANGED users
       ELSE IF CheckInsOf(auth.g_user) # {} \/ JournalsOf(auth.g_user) # {}
       THEN /\ resp' = Unhandled(op, auth.g_user, 0, data, "IntegrityError")
            /\ UNCHANGED users
       ELSE /\ users' = Without(users, auth.g_user)
            /\ resp' = Response(op, 200, "User deleted", auth.g_user, 0, data, EmptyDict)

----------------------------------------------------------------------------
\* src/models.py: CheckIn.

\* datetime.strptime(s, '%Y-%m-%dT%H:%M'): None stands for the ValueError.
strptime_minute(s) ==
    CASE s = "2022-03-01T08:00" -> Some([y |-> 2022, m |-> 3, d |-> 1, H |-> 8, M |-> 0])
      [] s = "2022-03-02T21:30" -> Some([y |-> 2022, m |-> 3, d |-> 2, H |-> 21, M |-> 30])
      [] OTHER -> None

\* The value a DateTime column stores when a text is bound to it: the
\* datetime the text denotes (NULL for None).
DateTimeColumn(o) == IF o = None THEN None ELSE strptime_minute(Val(o))

\* Column(..., default='[]') of symptoms and activities.
TextDefault == Some("[]")

\* json.loads on the texts the model stores; on None it raises, which the
\* one-element sequence TypeError stands for.
json_loads(o) ==
    CASE o = None -> <<"TypeError">>
      [] o = Some("[]") -> <<>>
      [] o = Some("[\"run\"]") -> <<"run">>
      [] o = Some("[\"headache\"]") -> <<"headache">>
      [] OTHER -> <<"JSONDecodeError">>

\* CheckIn.__init__: the attributes of the new object.
CheckIn_init(rating, date, user_id, symptoms, notes, activities) ==
    [rating |-> rating, user_id |-> user_id, symptoms |-> symptoms, date |-> date,
     notes |-> notes, activities |-> activities]

\* The INSERT storing NULL for an attribute that is None.
CheckIn_row_nulls(ci) ==
    [rating |-> ci.rating, user_id |-> ci.user_id, date |-> ci.date, notes |-> ci.notes,
     symptoms |-> ci.symptoms, activities |-> ci.activities]

\* The row the INSERT of a new CheckIn stores: an attribute that is None is
\* left out of the INSERT, and the column then takes its default.
CheckIn_row(ci) ==
    [rating |-> ci.rating, user_id |-> ci.user_id, date |-> ci.date, notes |-> ci.notes,
     symptoms |-> IF ci.symptoms = None THEN TextDefault ELSE ci.symptoms,
     activities |-> IF ci.activities = None THEN TextDefault ELSE ci.activities]

\* CheckIn.update reading notes with get('notes'): an absent key clears it.
CheckIn_update_clears_notes(ci, new_data) ==
    [ci EXCEPT !.rating = GetOr(new_data, "rating", ci.rating),
               !.date = IF "date" \in DOMAIN new_data
                        THEN DateTimeColumn(new_data.date) ELSE ci.date,
               !.activities = GetOr(new_data, "activities", ci.activities),
               !.symptoms = GetOr(new_data, "symptoms", ci.symptoms),
               !.notes = Get(new_data, "notes")]

\* CheckIn.update: the attributes after the assignments, before the commit.
CheckIn_update(ci, new_data) ==
    [ci EXCEPT !.rating = GetOr(new_data, "rating", ci.rating),
               !.date = IF "date" \in DOMAIN new_data
                        THEN DateTimeColumn(new_data.date) ELSE ci.date,
               !.activities = GetOr(new_data, "activities", ci.activities),
               !.symptoms = GetOr(new_data, "symptoms", ci.symptoms),
               !.notes = GetOr(new_data, "notes", ci.notes)]

\* rating and user_id are nullable=False: a commit that would store NULL in
\* one of them raises.
CheckIn_storable(ci) == ci.rating # None /\ ci.user_id # None

\* CheckIn.get_symptoms, CheckIn.get_activities.
get_symptoms(ci) == json_loads(ci.symptoms)
get_activities(ci) == json_loads(ci.activities)

\* filter_by(user_id=user_id, rating=r).count() on the rows of a table.
CountIn(table, user_id, r) ==
    Cardinality({i \in DOMAIN table :
                    table[i].user_id = Some(user_id) /\ table[i].rating = Some(r)})

\* CheckIn.query.filter_by(user_id=user_id, rating=r).count()
RatingCount(user_id, r) == CountIn(check_ins, user_id, r)

get_rating_totals(user_id) ==
    [very_bad |-> RatingCount(user_id, 1), bad |-> RatingCount(user_id, 2),
     neutral |-> RatingCount(user_id, 3), good |-> RatingCount(user_id, 4),
     very_good |-> RatingCount(user_id, 5)]

\* CheckIn.serialize raises on a NULL date (None has no isoformat).
CheckIn_serializable(ci) == ci.date # None

CheckIn_serialize(i, ci) ==
    [id |-> Some(i), date |-> ci.date, rating |-> ci.rating, symptoms |-> ci.symptoms,
     activities |-> ci.activities, notes |-> ci.notes, user_id |-> ci.user_id]

----------------------------------------------------------------------------
\* src/api/user.py: the check-in routes.

\* CheckIn.query.filter_by(id=check_in_id).first()
CheckInById(check_in_id) == IF check_in_id \in DOMAIN check_ins THEN check_in_id ELSE 0

get_check_ins(hdr) ==
    LET auth == login_required(hdr)
        op == "get_check_ins"
    IN
    /\ authz' = hdr
    /\ UNCHANGED <<db, autoinc, now, issued, inflight>>
    /\ IF ~auth.ok
       THEN resp' = Unauthorized(op, auth, 0, EmptyDict)
       ELSE IF auth.g_user = NoUser
       THEN resp' = Unhandled(op, NoUser, 0, EmptyDict, "AttributeError")
       ELSE IF \E i \in CheckInsOf(auth.g_user) : ~CheckIn_serializable(check_ins[i])
       THEN resp' = Unhandled(op, auth.g_user, 0, EmptyDict, "AttributeError")
       ELSE resp' = Response(op, 200, "", auth.g_user, 0, EmptyDict,
                             get_rating_totals(auth.g_user))

create_check_in(hdr, data) ==
    LET auth == login_required(hdr)
        op == "create_check_in"
    IN
    /\ authz' = hdr
    /\ UNCHANGED <<users, journals, pages, now, issued, inflight>>
    /\ IF ~auth.ok
       THEN /\ resp' = Unauthorized(op, auth, 0, data)
            /\ UNCHANGED <<check_ins, autoinc>>
       ELSE IF Falsy(data) \/ ~TruthyStr(Get(data, "date")) \/ ~TruthyInt(Get(data, "rating"))
       THEN /\ resp' = Response(op, 400, "Invalid payload", auth.g_user, 0, data, EmptyDict)
            /\ UNCHANGED <<check_ins, autoinc>>
       ELSE IF strptime_minute(Val(data.date)) = None
       THEN /\ resp' = Unhandled(op, auth.g_user, 0, data, "ValueError")
            /\ UNCHANGED <<check_ins, autoinc>>
       ELSE IF auth.g_user = NoUser
       THEN /\ resp' = Unhandled(op, NoUser, 0, data, "AttributeError")
            /\ UNCHANGED <<check_ins, autoinc>>
       ELSE /\ autoinc.check_in < MaxCheckIns
            /\ LET ci == CheckIn_init(Get(data, "rating"), strptime_minute(Val(data.date)),
                                      Some(auth.g_user), Get(data, "symptoms"),
                                      Get(data, "notes"), Get(data, "activities"))
                   id == autoinc.check_in + 1
               IN
               /\ check_ins' = With(check_ins, id, CheckIn_row(ci))
               /\ autoinc' = [autoinc EXCEPT !.check_in = id]
               /\ resp' = Response(op, 201, "", auth.g_user, id, data,
                                   CheckIn_serialize(id, CheckIn_row(ci)))

get_check_in_by_id(hdr, check_in_id) ==
    LET auth == login_required(hdr)
        op == "get_check_in_by_id"
        ci == CheckInById(check_in_id)
    IN
    /\ authz' = hdr
    /\ UNCHANGED <<db, autoinc, now, issued, inflight>>
    /\ IF ~auth.ok
       THEN resp' = Unauthorized(op, auth, check_in_id, EmptyDict)
       ELSE IF ci = 0
       THEN resp' = Response(op, 404, "Check-in not found", auth.g_user, check_in_id,
                             EmptyDict, EmptyDict)
       ELSE IF ~CheckIn_serializable(check_ins[ci])
       THEN resp' = Unhandled(op, auth.g_user, check_in_id, EmptyDict, "AttributeError")
       ELSE resp' = Response(op, 200, "", auth.g_user, check_in_id, EmptyDict,
                             CheckIn_serialize(ci, check_ins[ci]))

\* ci.update(data) commits inside CheckIn.update; the serialize that follows
\* can still raise, after the commit.
update_check_in_by_id(hdr, check_in_id, data) ==
    LET auth == login_required(hdr)
        op == "update_check_in_by_id"
        ci == CheckInById(check_in_id)
    IN
    /\ authz' = hdr
    /\ UNCHANGED <<users, journals, pages, autoinc, now, issued, inflight>>
    /\ IF ~auth.ok
       THEN /\ resp' = Unauthorized(op, auth, check_in_id, data)
            /\ UNCHANGED check_ins
       ELSE IF Falsy(data)
       THEN /\ resp' = Response(op, 400, "Invalid payload", auth.g_user, check_in_id, data,
                                EmptyDict)
            /\ UNCHANGED check_ins
       ELSE IF ci = 0
       THEN /\ resp' = Response(op, 404, "Check-in not found", auth.g_user, check_in_id,
                                data, EmptyDict)
            /\ UNCHANGED check_ins
       ELSE LET updated == CheckIn_update(check_ins[ci], data) IN
            IF ~CheckIn_storable(updated)
            THEN /\ resp' = Unhandled(op, auth.g_user, check_in_id, data, "IntegrityError")
                 /\ UNCHANGED check_ins
            ELSE /\ check_ins' = [check_ins EXCEPT ![ci] = updated]
                 /\ resp' = IF CheckIn_serializable(updated)
                            THEN Response(op, 200, "", auth.g_user, check_in_id, data,
                                          CheckIn_serialize(ci, updated))
                            ELSE Unhandled(op, auth.g_user, check_in_id, data,
                                           "AttributeError")

delete_check_in_by_id(hdr, check_in_id) ==
    LET auth == login_required(hdr)
        op == "delete_check_in_by_id"
        ci == CheckInById(check_in_id)
    IN
    /\ authz' = hdr
    /\ UNCHANGED <<users, journals, pages, autoinc, now, issued, inflight>>
    /\ IF ~auth.ok
       THEN /\ resp' = Unauthorized(op, auth, check_in_id, EmptyDict)
            /\ UNCHANGED check_ins
       ELSE IF ci = 0
       THEN /\ resp' = Response(op, 404, "Check-in not found", auth.g_user, check_in_id,
                                EmptyDict, EmptyDict)
            /\ UNCHANGED check_ins
       ELSE /\ check_ins' = Without(check_ins, ci)
            /\ resp' = Response(op, 200, "Check-in deleted", auth.g_user, check_in_id,
                                EmptyDict, EmptyDict)

----------------------------------------------------------------------------
\* src/models.py: Journal and JournalPage.

\* JournalPage.update: the attributes after the assignment.  Nothing is
\* committed here or in the handler that calls it.
JournalPage_update(page, new_data) ==
    [page EXCEPT !.body = GetOr(new_data, "body", page.body)]

JournalPage_serialize(i, page) ==
    [id |-> Some(i), journal_id |-> page.journal_id, date |-> page.date, body |-> page.body]

\* Journal.serialize: the id, the owner and the ids of the pages.
Journal_serialize(i, journal) ==
    [id |-> Some(i), owner_id |-> journal.owner_id,
     pages |-> {k \in DOMAIN pages : pages[k].journal_id = Some(i)}]

\* Journal.add_page: the row of the new page.
add_page(journal_id, body, date) ==
    [journal_id |-> Some(journal_id), body |-> body, date |-> date]

----------------------------------------------------------------------------
\* src/api/user.py: the journal routes.

\* The free slot a new get_journal request takes.
FreeSlot == First({k \in DOMAIN inflight : inflight[k] = None})

\* get_journal up to its test of g.user.journal.  A user who has a journal is
\* answered at once; otherwise the request goes on to create one.
get_journal_check(hdr) ==
    LET auth == login_required(hdr)
        op == "get_journal"
    IN
    /\ authz' = hdr
    /\ UNCHANGED <<db, autoinc, now, issued>>
    /\ IF ~auth.ok
       THEN /\ resp' = Unauthorized(op, auth, 0, EmptyDict)
            /\ UNCHANGED inflight
       ELSE IF auth.g_user = NoUser
       THEN /\ resp' = Unhandled(op, NoUser, 0, EmptyDict, "AttributeError")
            /\ UNCHANGED inflight
       ELSE IF JournalsOf(auth.g_user) # {}
       THEN /\ LET first == First(JournalsOf(auth.g_user)) IN
               resp' = Response(op, 200, "", auth.g_user, first, EmptyDict,
                                Journal_serialize(first, journals[first]))
            /\ UNCHANGED inflight
       ELSE /\ FreeSlot # 0
            /\ inflight' = [inflight EXCEPT ![FreeSlot] = Some(auth.g_user)]
            /\ resp' = Response(op, 0, "pending", auth.g_user, 0, EmptyDict, EmptyDict)

\* get_journal from Journal(owner_id=g.user.id) to the response, for the
\* request parked in a slot (its header was judged in get_journal_check and
\* is not kept).  owner_id is a foreign key: the commit fails when the user
\* is gone.
get_journal_commit(slot) ==
    LET op == "get_journal_commit"
        uid == Val(inflight[slot])
    IN
    /\ inflight[slot] # None
    /\ authz' = NoHeader
    /\ inflight' = [inflight EXCEPT ![slot] = None]
    /\ UNCHANGED <<users, check_ins, pages, now, issued>>
    /\ IF uid \notin DOMAIN users
       THEN /\ resp' = Unhandled(op, uid, 0, EmptyDict, "IntegrityError")
            /\ UNCHANGED <<journals, autoinc>>
       ELSE /\ autoinc.journal < MaxJournals
            /\ LET id == autoinc.journal + 1
                   first == First(JournalsOf(uid) \cup {id})
               IN
               /\ journals' = With(journals, id, [owner_id |-> Some(uid)])
               /\ autoinc' = [autoinc EXCEPT !.journal = id]
               /\ resp' = Response(op, 201, "", uid, first, EmptyDict,
                                   Journal_serialize(first, journals'[first]))

create_journal_page(hdr, data) ==
    LET auth == login_required(hdr)
        op == "create_journal_page"
    IN
    /\ authz' = hdr
    /\ UNCHANGED <<users, check_ins, journals, now, issued, inflight>>
    /\ IF ~auth.ok
       THEN /\ resp' = Unauthorized(op, auth, 0, data)
            /\ UNCHANGED <<pages, autoinc>>
       ELSE IF Falsy(data) \/ ~TruthyStr(Get(data, "date")) \/ ~TruthyStr(Get(data, "body"))
       THEN /\ resp' = Response(op, 400, "Invalid payload", auth.g_user, 0, data, EmptyDict)
            /\ UNCHANGED <<pages, autoinc>>
       ELSE IF auth.g_user = NoUser
       THEN /\ resp' = Unhandled(op, NoUser, 0, data, "AttributeError")
            /\ UNCHANGED <<pages, autoinc>>
       ELSE IF JournalsOf(auth.g_user) = {}
       THEN /\ resp' = Unhandled(op, auth.g_user, 0, data, "IndexError")
            /\ UNCHANGED <<pages, autoinc>>
       ELSE IF strptime_minute(Val(data.date)) = None
       THEN /\ resp' = Unhandled(op, auth.g_user, 0, data, "ValueError")
            /\ UNCHANGED <<pages, autoinc>>
       ELSE /\ autoinc.journal_page < MaxPages
            /\ LET id == autoinc.journal_page + 1
                   page == add_page(First(JournalsOf(auth.g_user)), data.body,
                                    strptime_minute(Val(data.date)))
               IN
               /\ pages' = With(pages, id, page)
               /\ autoinc' = [autoinc EXCEPT !.journal_page = id]
               /\ resp' = Response(op, 201, "", auth.g_user, id, data,
                                   JournalPage_serialize(id, page))

\* JournalPage.query.filter_by(id=page_id).first()
PageById(page_id) == IF page_id \in DOMAIN pages THEN page_id ELSE 0

\* page.update(data) assigns to the page object of the session; neither
\* JournalPage.update nor the handler commits, and the session is dropped
\* with the request: the answer serializes the object, the table keeps the
\* row as it was.
update_journal_page(hdr, page_id, data) ==
    LET auth == login_required(hdr)
        op == "update_journal_page"
        page == PageById(page_id)
    IN
    /\ authz' = hdr
    /\ UNCHANGED <<users, check_ins, journals, autoinc, now, issued, inflight>>
    /\ IF ~auth.ok
       THEN /\ resp' = Unauthorized(op, auth, page_id, data)
            /\ UNCHANGED pages
       ELSE IF Falsy(data)
       THEN /\ resp' = Response(op, 400, "Invalid payload", auth.g_user, page_id, data,
                                EmptyDict)
            /\ UNCHANGED pages
       ELSE IF page = 0
       THEN /\ resp' = Response(op, 404, "Page not found", auth.g_user, page_id, data,
                                EmptyDict)
            /\ UNCHANGED pages
       ELSE LET updated == JournalPage_update(pages[page], data) IN
            /\ UNCHANGED pages
            /\ resp' = Response(op, 200, "", auth.g_user, page_id, data,
                                JournalPage_serialize(page, updated))

delete_journal_pate(hdr, page_id) ==
    LET auth == login_required(hdr)
        op == "delete_journal_pate"
        page == PageById(page_id)
    IN
    /\ authz' = hdr
    /\ UNCHANGED <<users, check_ins, journals, autoinc, now, issued, inflight>>
    /\ IF ~auth.ok
       THEN /\ resp' = Unauthorized(op, auth, page_id, EmptyDict)
            /\ UNCHANGED pages
       ELSE IF page = 0
       THEN /\ resp' = Response(op, 404, "Page not found", auth.g_user, page_id,
                                EmptyDict, EmptyDict)
            /\ UNCHANGED pages
       ELSE /\ pages' = Without(pages, page)
            /\ resp' = Response(op, 200, "Page deleted", auth.g_user, page_id,
                                EmptyDict, EmptyDict)

----------------------------------------------------------------------------
\* The clock.

Tick ==
    /\ now < MaxTime
    /\ now' = now + 1
    /\ authz' = NoHeader
    /\ resp' = NoResponse
    /\ UNCHANGED <<db, autoinc, issued, inflight>>

----------------------------------------------------------------------------
\* The requests of the clients.

Emails == {"a@x.com", "b@x.com"}
Passwords == {"p1", "p2"}
Slots == 1..MaxInFlight

\* A token whose signature segment was altered, one whose subject was altered
\* under the signature of the original, and one that is no JWT at all.
AlteredSignature(t) == [t EXCEPT !.sig = <<"altered", t.sub, t.iat, t.exp>>]
AlteredSubject(t) == [t EXCEPT !.sub = IF t.sub = 1 THEN 2 ELSE 1]
Malformed == [NoToken EXCEPT !.segs = 1]

Bearer(t) == Header("present", "Bearer", t)

\* The headers a client can send: none, an empty one, another scheme, and a
\* bearer header of an issued token, of a tampered one or of a malformed one.
Headers ==
    {NoHeader, Header("empty", "", NoToken)}
    \cup {Header("present", "Basic", t) : t \in Tokens}
    \cup {Bearer(t) : t \in Tokens \cup {Malformed}}
    \cup {Bearer(AlteredSignature(t)) : t \in Tokens}
    \cup {Bearer(AlteredSubject(t)) : t \in Tokens}

\* The headers of well-behaved clients: the bearer header of an issued token.
IssuedHeaders == {Bearer(t) : t \in Tokens}

\* JSON bodies.  A key that is absent is not in the dict, a null is None.
RegisterPayloads ==
    {[name |-> Some("A"), email |-> Some(e), dob |-> Some("1990-01-01"), password |-> Some(p)] :
        e \in Emails, p \in Passwords}
    \cup {[name |-> Some("B"), email |-> Some(e), dob |-> Some("01/05/1985"),
           password |-> Some("p2")] : e \in Emails}
    \cup {[name |-> Some("B"), email |-> Some("b@x.com"), dob |-> Some("1985-05-05")],
          [name |-> Some("B"), email |-> Some(""), dob |-> Some("1985-05-05"),
           password |-> Some("p2")],
          EmptyDict}

\* Two clients that register once each, with different emails.
TwoUsers ==
    {[name |-> Some("A"), email |-> Some("a@x.com"), dob |-> Some("1990-01-01"),
      password |-> Some("p1")],
     [name |-> Some("B"), email |-> Some("b@x.com"), dob |-> Some("1985-05-05"),
      password |-> Some("p2")]}

LoginPayloads ==
    {[email |-> Some(e), password |-> Some(p)] : e \in Emails, p \in Passwords}
    \cup {[email |-> Some("a@x.com")]}

\* The logins of the two clients, with their own passwords.
TwoLogins ==
    {[email |-> Some("a@x.com"), password |-> Some("p1")],
     [email |-> Some("b@x.com"), password |-> Some("p2")]}

UpdateUserPayloads ==
    {[name |-> Some(n), email |-> Some(e)] : n \in {"A", "C"}, e \in Emails}
    \cup {[name |-> Some("C")], EmptyDict}

ChangePasswordPayloads ==
    {[current_password |-> Some(p), new_password |-> Some(q)] : p, q \in Passwords}
    \cup {[current_password |-> Some("p1")]}

DeleteUserPayloads == {[password |-> Some(p)] : p \in Passwords} \cup {EmptyDict}

CreateCheckInPayloads ==
    {[date |-> Some("2022-03-01T08:00"), rating |-> Some(3)],
     [date |-> Some("2022-03-02T21:30"), rating |-> Some(5), notes |-> Some("slept well"),
      activities |-> Some("[\"run\"]"), symptoms |-> Some("[\"headache\"]")],
     [date |-> Some("2022-03-01T08:00"), rating |-> Some(1), activities |-> None],
     [date |-> Some("01.03.2022"), rating |-> Some(3)],
     [date |-> Some("2022-03-01T08:00"), rating |-> Some(0)],
     [date |-> Some("2022-03-01T08:00")]}

UpdateCheckInPayloads ==
    {[notes |-> Some("x")],
     [rating |-> Some(1)],
     [rating |-> None],
     [date |-> Some("2022-03-02T21:30"), symptoms |-> Some("[\"headache\"]")],
     [notes |-> None, activities |-> Some("[\"run\"]")],
     [user_id |-> Some(2), id |-> Some(9)],
     EmptyDict}

CreatePagePayloads ==
    {[date |-> Some("2022-03-01T08:00"), body |-> Some("dear diary")],
     [date |-> Some("01.03.2022"), body |-> Some("dear diary")],
     [body |-> Some("dear diary")]}

UpdatePagePayloads ==
    {[body |-> Some("edited")], [date |-> Some("2022-03-02T21:30")], EmptyDict}

\* The ids a route can name: the rows that can exist, and one that cannot.
CheckInIds == 1..(MaxCheckIns + 1)
PageIds == 1..(MaxPages + 1)

Init ==
    /\ users = <<>>
    /\ check_ins = <<>>
    /\ journals = <<>>
    /\ pages = <<>>
    /\ autoinc = [users |-> 0, check_in |-> 0, journal |-> 0, journal_page |-> 0]
    /\ now = 0
    /\ issued = {}
    /\ inflight = [k \in Slots |-> None]
    /\ authz = NoHeader
    /\ resp = NoResponse

\* Every route, every header, every body.
Next ==
    \/ \E d \in RegisterPayloads : register(d)
    \/ \E d \in LoginPayloads : login(d)
    \/ \E h \in Headers, d \in ChangePasswordPayloads : change_password(h, d)
    \/ \E h \in Headers : get_current_user(h)
    \/ \E h \in Headers, d \in UpdateUserPayloads : update_user(h, d)
    \/ \E h \in Headers, d \in DeleteUserPayloads : delete_user(h, d)
    \/ \E h \in Headers : get_check_ins(h)
    \/ \E h \in Headers, d \in CreateCheckInPayloads : create_check_in(h, d)
    \/ \E h \in Headers, i \in CheckInIds : get_check_in_by_id(h, i)
    \/ \E h \in Headers, i \in CheckInIds, d \in UpdateCheckInPayloads :
          update_check_in_by_id(h, i, d)
    \/ \E h \in Headers, i \in CheckInIds : delete_check_in_by_id(h, i)
    \/ \E h \in Headers : get_journal_check(h)
    \/ \E k \in Slots : get_journal_commit(k)
    \/ \E h \in Headers, d \in CreatePagePayloads : create_journal_page(h, d)
    \/ \E h \in Headers, i \in PageIds, d \in UpdatePagePayloads : update_journal_page(h, i, d)
    \/ \E h \in Headers, i \in PageIds : delete_journal_pate(h, i)
    \/ Tick

Spec == Init /\ [][Next]_vars

\* The accounts: registration, login and the user routes, for clients that
\* present the tokens they were issued or no header.
NextAccounts ==
    \/ \E d \in RegisterPayloads : register(d)
    \/ \E d \in LoginPayloads : login(d)
    \/ \E h \in IssuedHeaders \cup {NoHeader}, d \in ChangePasswordPayloads :
          change_password(h, d)
    \/ \E h \in IssuedHeaders \cup {NoHeader} : get_current_user(h)
    \/ \E h \in IssuedHeaders \cup {NoHeader}, d \in UpdateUserPayloads : update_user(h, d)
    \/ \E h \in IssuedHeaders \cup {NoHeader}, d \in DeleteUserPayloads : delete_user(h, d)

SpecAccounts == Init /\ [][NextAccounts]_vars

\* One client that registers and logs in.
OneUser ==
    {[name |-> Some("A"), email |-> Some("a@x.com"), dob |-> Some("1990-01-01"),
      password |-> Some("p1")]}
OneLogin == {[email |-> Some("a@x.com"), password |-> Some("p1")]}

\* The access guard: every protected route under every header, one
\* well-formed body per route.
NextGuard ==
    \/ \E d \in OneUser : register(d)
    \/ \E d \in OneLogin : login(d)
    \/ \E h \in Headers :
          change_password(h, [current_password |-> Some("p1"), new_password |-> Some("p1")])
    \/ \E h \in Headers : get_current_user(h)
    \/ \E h \in Headers : update_user(h, [name |-> Some("A"), email |-> Some("a@x.com")])
    \/ \E h \in Headers : delete_user(h, [password |-> Some("p1")])
    \/ \E h \in Headers : get_check_ins(h)
    \/ \E h \in Headers :
          create_check_in(h, [date |-> Some("2022-03-01T08:00"), rating |-> Some(3)])
    \/ \E h \in Headers : get_check_in_by_id(h, 1)
    \/ \E h \in Headers : update_check_in_by_id(h, 1, [notes |-> Some("x")])
    \/ \E h \in Headers : delete_check_in_by_id(h, 1)
    \/ \E h \in Headers : get_journal_check(h)
    \/ \E k \in Slots : get_journal_commit(k)
    \/ \E h \in Headers :
          create_journal_page(h, [date |-> Some("2022-03-01T08:00"), body |-> Some("dear diary")])
    \/ \E h \in Headers : update_journal_page(h, 1, [body |-> Some("edited")])
    \/ \E h \in Headers : delete_journal_pate(h, 1)

SpecGuard == Init /\ [][NextGuard]_vars

\* The token service: tokens are issued at every instant of the clock and
\* presented, as issued or tampered with, until after they expire.
NextTokens ==
    \/ \E d \in TwoUsers : register(d)
    \/ \E d \in TwoLogins : login(d)
    \/ \E h \in Headers : get_current_user(h)
    \/ Tick

SpecTokens == Init /\ [][NextTokens]_vars

\* The check-ins of two clients: every check-in route and body, for clients
\* that present the tokens they were issued or no header.
NextCheckIns ==
    \/ \E d \in TwoUsers : register(d)
    \/ \E d \in TwoLogins : login(d)
    \/ \E h \in IssuedHeaders \cup {NoHeader} : get_check_ins(h)
    \/ \E h \in IssuedHeaders \cup {NoHeader}, d \in CreateCheckInPayloads : create_check_in(h, d)
    \/ \E h \in IssuedHeaders \cup {NoHeader}, i \in CheckInIds : get_check_in_by_id(h, i)
    \/ \E h \in IssuedHeaders \cup {NoHeader}, i \in CheckInIds, d \in UpdateCheckInPayloads :
          update_check_in_by_id(h, i, d)
    \/ \E h \in IssuedHeaders \cup {NoHeader}, i \in CheckInIds : delete_check_in_by_id(h, i)

SpecCheckIns == Init /\ [][NextCheckIns]_vars

\* The journals of two clients: get_journal in its two steps, so that
\* requests interleave between the check and the commit, and the page routes.
NextJournal ==
    \/ \E d \in TwoUsers : register(d)
    \/ \E d \in TwoLogins : login(d)
    \/ \E h \in IssuedHeaders \cup {NoHeader} : get_journal_check(h)
    \/ \E k \in Slots : get_journal_commit(k)
    \/ \E h \in IssuedHeaders \cup {NoHeader}, d \in CreatePagePayloads :
          create_journal_page(h, d)
    \/ \E h \in IssuedHeaders \cup {NoHeader}, i \in PageIds, d \in UpdatePagePayloads :
          update_journal_page(h, i, d)
    \/ \E h \in IssuedHeaders \cup {NoHeader}, i \in PageIds : delete_journal_pate(h, i)

SpecJournal == Init /\ [][NextJournal]_vars

\* Entities that are created, deleted and asked for again: the by-id routes
\* of check-ins and pages, for one client.
NextDeletes ==
    \/ \E d \in OneUser : register(d)
    \/ \E d \in OneLogin : login(d)
    \/ \E h \in IssuedHeaders \cup {NoHeader} :
          create_check_in(h, [date |-> Some("2022-03-01T08:00"), rating |-> Some(3)])
    \/ \E h \in IssuedHeaders \cup {NoHeader}, i \in CheckInIds : get_check_in_by_id(h, i)
    \/ \E h \in IssuedHeaders \cup {NoHeader}, i \in CheckInIds,
          d \in {[notes |-> Some("x")], EmptyDict} : update_check_in_by_id(h, i, d)
    \/ \E h \in IssuedHeaders \cup {NoHeader}, i \in CheckInIds : delete_check_in_by_id(h, i)
    \/ \E h \in IssuedHeaders \cup {NoHeader} : get_journal_check(h)
    \/ \E k \in Slots : get_journal_commit(k)
    \/ \E h \in IssuedHeaders \cup {NoHeader} :
          create_journal_page(h, [date |-> Some("2022-03-01T08:00"), body |-> Some("dear diary")])
    \/ \E h \in IssuedHeaders \cup {NoHeader}, i \in PageIds, d \in UpdatePagePayloads :
          update_journal_page(h, i, d)
    \/ \E h \in IssuedHeaders \cup {NoHeader}, i \in PageIds : delete_journal_pate(h, i)

SpecDeletes == Init /\ [][NextDeletes]_vars

\* Accounts that are deleted while their tokens are still in circulation: the
\* user routes, for clients that present the tokens they were issued or no
\* header, while the clock runs.
NextDeletedUser ==
    \/ \E d \in TwoUsers : register(d)
    \/ \E d \in TwoLogins : login(d)
    \/ \E h \in IssuedHeaders \cup {NoHeader} : get_current_user(h)
    \/ \E h \in IssuedHeaders \cup {NoHeader} :
          update_user(h, [name |-> Some("A"), email |-> Some("a@x.com")])
    \/ \E h \in IssuedHeaders \cup {NoHeader}, d \in DeleteUserPayloads : delete_user(h, d)
    \/ Tick

SpecDeletedUser == Init /\ [][NextDeletedUser]_vars

----------------------------------------------------------------------------
\* The access guard and the token service.

\* The steps in which login_required judges a request.
ProtectedOps ==
    {"change_password", "get_current_user", "update_user", "delete_user", "get_check_ins",
     "create_check_in", "get_check_in_by_id", "update_check_in_by_id",
     "delete_check_in_by_id", "get_journal", "create_journal_page", "update_journal_page",
     "delete_journal_pate"}

\* The wrapper answered: 401 with this message, and the handler did not run.
RejectedWith(r, msg) == r.status = 401 /\ r.msg = msg /\ ~r.called

\* The token was issued by a login and has not expired.
IssuedAndFresh(t) == \E i \in issued : i.token = t /\ now < i.at + TokenLifetime

\* C1: a protected route runs its handler only for a present Bearer header
\* whose token verifies; otherwise the answer is 401 with the message of the
\* first failed test (header, then scheme, then token) and no stored User,
\* CheckIn, Journal or JournalPage changes.
C1_GuardDecides ==
    [][resp'.op \in ProtectedOps =>
         IF authz'.kind # "present"
         THEN RejectedWith(resp', "Authorization header is required") /\ db' = db
         ELSE IF authz'.scheme # "Bearer"
         THEN RejectedWith(resp', "Invalid authorization header") /\ db' = db
         ELSE IF ~IssuedAndFresh(authz'.token)
         THEN RejectedWith(resp', "Invalid token") /\ db' = db
         ELSE resp'.called /\ resp'.status # 401]_vars

\* A delete of a stored check-in was refused for a token with an altered
\* signature, after the same route had been open to the token as issued.
C1_Witness ==
    /\ resp.op = "delete_check_in_by_id"
    /\ RejectedWith(resp, "Invalid token")
    /\ \E t \in Tokens : authz = Bearer(AlteredSignature(t))
    /\ 1 \in DOMAIN check_ins

\* C2: check_auth_token resolves a token issued to user u at instant t to u
\* at every instant before t + 24h and to None from t + 24h on; a token whose
\* signature or payload was altered, or that is malformed, resolves to None
\* at any instant.
C2_TokenLifetime ==
    /\ \A i \in issued :
          check_auth_token(i.token, now) =
              IF now < i.at + TokenLifetime THEN i.user ELSE NoUser
    /\ \A t \in Tokens :
          /\ check_auth_token(AlteredSignature(t), now) = NoUser
          /\ check_auth_token(AlteredSubject(t), now) = NoUser
    /\ check_auth_token(Malformed, now) = NoUser

\* A token was presented at the instant it expires, and again while a token
\* issued later was still good.
C2_Witness ==
    /\ resp.op = "get_current_user"
    /\ RejectedWith(resp, "Invalid token")
    /\ \E i \in issued : authz = Bearer(i.token) /\ now = i.at + TokenLifetime
    /\ \E i \in issued : now < i.at + TokenLifetime /\ check_auth_token(i.token, now) = i.user

----------------------------------------------------------------------------
\* Accounts.

\* C3: no two stored Users have the same email.
C3_EmailUnique ==
    \A i, j \in DOMAIN users : i # j => users[i].email # users[j].email

\* The four required fields of a registration are given and not empty.
RegisterFieldsGiven(d) ==
    /\ TruthyStr(Get(d, "name")) /\ TruthyStr(Get(d, "email"))
    /\ TruthyStr(Get(d, "dob")) /\ TruthyStr(Get(d, "password"))

\* C4: a registration with the four fields given whose email is the email of
\* a stored User is answered 400 'User already exists', creates no User and
\* leaves every stored User as it was.
C4_DuplicateRegistration ==
    [][(/\ resp'.op = "register"
        /\ RegisterFieldsGiven(resp'.data)
        /\ \E i \in DOMAIN users : users[i].email = Val(resp'.data.email))
       => (/\ resp'.status = 400
           /\ resp'.msg = "User already exists"
           /\ users' = users)]_vars

\* A second registration of a stored email, under another password, refused.
C4_Witness ==
    /\ resp.op = "register"
    /\ resp.msg = "User already exists"
    /\ \E i \in DOMAIN users :
          /\ users[i].email = Val(resp.data.email)
          /\ users[i].password_hash # hash_password(Val(resp.data.password))

----------------------------------------------------------------------------
\* Check-ins.

CheckInByIdOps == {"get_check_in_by_id", "update_check_in_by_id", "delete_check_in_by_id"}
PageByIdOps == {"update_journal_page", "delete_journal_pate"}

\* The owner of a page: the owner of the journal that holds it.
PageOwner(page) == journals[Val(page.journal_id)].owner_id

\* C5: a get, update or delete of a CheckIn by id, and an update or delete of
\* a JournalPage by id, succeeds only for the owner of the entity.
C5_OwnerOnly ==
    [][(resp'.status = 200 /\ resp'.op \in CheckInByIdOps
           => check_ins[resp'.id].user_id = Some(resp'.uid))
       /\ (resp'.status = 200 /\ resp'.op \in PageByIdOps
           => PageOwner(pages[resp'.id]) = Some(resp'.uid))]_vars

MutableFields == {"rating", "date", "activities", "symptoms", "notes"}

\* The value a field holds once a payload value is stored in it.
Stored(field, value) == IF field = "date" THEN DateTimeColumn(value) ELSE value

\* The step is an update_check_in_by_id that reached CheckIn.update: the
\* payload is not empty and the check-in exists.
UpdatesCheckIn ==
    /\ resp'.op = "update_check_in_by_id"
    /\ resp'.called
    /\ ~Falsy(resp'.data)
    /\ resp'.id \in DOMAIN check_ins

\* The step overwrites, in check-in resp'.id, exactly the mutable fields that
\* are keys of the payload, and changes nothing else that is stored.
OverwritesExactlyKeys ==
    /\ DOMAIN check_ins' = DOMAIN check_ins
    /\ \A f \in MutableFields :
          check_ins'[resp'.id][f] =
              IF f \in DOMAIN resp'.data THEN Stored(f, resp'.data[f])
              ELSE check_ins[resp'.id][f]
    /\ check_ins'[resp'.id].user_id = check_ins[resp'.id].user_id
    /\ \A i \in DOMAIN check_ins \ {resp'.id} : check_ins'[i] = check_ins[i]
    /\ UNCHANGED <<users, journals, pages>>

\* C6 as claimed: every update of an existing check-in with a non-empty
\* payload overwrites exactly the mutable fields that are keys of the payload.
C6_AsClaimed == [][UpdatesCheckIn => OverwritesExactlyKeys]_vars

\* The payload gives rating as null.
NullRating(d) == "rating" \in DOMAIN d /\ d.rating = None

\* C6 amended: the update overwrites exactly the mutable fields that are keys
\* of the payload unless the payload gives rating as null; then the commit is
\* refused, the request fails and nothing stored changes.
C6_PartialUpdate ==
    [][UpdatesCheckIn =>
         IF NullRating(resp'.data)
         THEN resp'.status = 500 /\ db' = db
         ELSE OverwritesExactlyKeys]_vars

\* An update of notes alone went through on a check-in whose other fields
\* hold values of their own.
C6_Witness ==
    /\ resp.op = "update_check_in_by_id"
    /\ resp.status = 200
    /\ resp.data = [notes |-> Some("x")]
    /\ check_ins[resp.id].notes = Some("x")
    /\ check_ins[resp.id].activities = Some("[\"run\"]")
    /\ check_ins[resp.id].rating = Some(5)

\* The body gives a date in the format of the route and a rating, and
\* neither activities nor symptoms.
CreatesBareCheckIn(d) ==
    /\ ~Falsy(d)
    /\ TruthyStr(Get(d, "date")) /\ strptime_minute(Val(d.date)) # None
    /\ TruthyInt(Get(d, "rating"))
    /\ Get(d, "activities") = None
    /\ Get(d, "symptoms") = None

\* C7: a create_check_in that gives date and rating and omits activities and
\* symptoms stores a CheckIn of the authenticated user whose activities and
\* symptoms are the empty sequence, and the rating totals of that user count
\* it in the bucket of its rating and in no other.
C7_BareCheckIn ==
    [][(resp'.op = "create_check_in" /\ resp'.called /\ CreatesBareCheckIn(resp'.data))
       => (/\ resp'.status = 201
           /\ resp'.id \notin DOMAIN check_ins
           /\ resp'.id \in DOMAIN check_ins'
           /\ check_ins'[resp'.id].user_id = Some(resp'.uid)
           /\ resp'.uid \in DOMAIN users
           /\ get_activities(check_ins'[resp'.id]) = <<>>
           /\ get_symptoms(check_ins'[resp'.id]) = <<>>
           /\ \A r \in 1..5 :
                 CountIn(check_ins', resp'.uid, r) =
                     RatingCount(resp'.uid, r) + IF Some(r) = resp'.data.rating THEN 1 ELSE 0
           /\ \A u \in DOMAIN users \ {resp'.uid}, r \in 1..5 :
                 CountIn(check_ins', u, r) = RatingCount(u, r))]_vars

\* A check-in of rating 3 with no optional field was stored and is the one
\* check-in the totals of its owner count, as neutral.
C7_Witness ==
    /\ resp.op = "create_check_in"
    /\ resp.status = 201
    /\ DOMAIN resp.data = {"date", "rating"}
    /\ get_activities(check_ins[resp.id]) = <<>>
    /\ get_rating_totals(resp.uid) =
          [very_bad |-> 0, bad |-> 0, neutral |-> 1, good |-> 0, very_good |-> 0]

----------------------------------------------------------------------------
\* Journals and deletes.

\* C8: each User owns at most one Journal.
C8_OneJournal == \A u \in DOMAIN users : Cardinality(JournalsOf(u)) <= 1

\* The ids of a table that were given to a row that is no longer stored:
\* rows leave a table by a delete only.
Deleted(table, last) == (1..last) \ DOMAIN table

\* The step is an authenticated by-id request for a deleted check-in or page.
AsksForDeleted ==
    /\ resp'.called
    /\ \/ resp'.op \in CheckInByIdOps /\ resp'.id \in Deleted(check_ins, autoinc.check_in)
       \/ resp'.op \in PageByIdOps /\ resp'.id \in Deleted(pages, autoinc.journal_page)

\* A successful delete removes the row, and a create never gives a new row
\* an id that was used before.
DeletesForGood ==
    /\ resp'.op = "delete_check_in_by_id" /\ resp'.status = 200
          => resp'.id \in Deleted(check_ins', autoinc'.check_in)
    /\ resp'.op = "delete_journal_pate" /\ resp'.status = 200
          => resp'.id \in Deleted(pages', autoinc'.journal_page)
    /\ resp'.op = "create_check_in" /\ resp'.status = 201
          => resp'.id \notin 1..autoinc.check_in
    /\ resp'.op = "create_journal_page" /\ resp'.status = 201
          => resp'.id \notin 1..autoinc.journal_page

C10_UpdateCommitted ==
    (/\ resp.op = "update_journal_page"
     /\ resp.status = 200
     /\ "body" \in DOMAIN resp.data)
    => pages[resp.id].body = resp.data.body

\* The step is a request that login_required lets through to its handler.
LetThrough == resp'.op \in ProtectedOps /\ resp'.called

\* C11: whenever login_required lets a request through to its handler, the
\* identity it binds to the request (g.user) is a currently stored User, also
\* when the token is unexpired and its user was deleted after it was issued.
C11_BoundUserStored ==
    [][LetThrough => login_required(authz').g_user \in DOMAIN users]_vars

====
